---- MODULE Spec2Model ----
(***************************************************************************)
(* Model of the repository-replication pipelines of pycai:                 *)
(*   - RepoSyncer   (modules/unity/repo_sync.py), the line-oriented one,   *)
(*   - SVNRepoSync  (modules/unity/sync_between_repos.py), the block-      *)
(*     structured (XML) one,                                               *)
(* both driving the external svn binary (core/svn.py, run_svn_command).    *)
(* Text is a sequence of one-character strings, so that split, startswith, *)
(* slicing and strip are computed as the code computes them.               *)
(***************************************************************************)
EXTENDS Integers, Sequences, FiniteSets, TLC

VARIABLES
    variant,          \* "line" = RepoSyncer, "xml" = SVNRepoSync
    entry,            \* "main" = the script's main flow, "api" = sync_changes called directly
    svnInstalled,     \* whether the svn binary can be started
    stage,            \* the run's stage
    updStep,          \* RepoSyncer.update_repos: 1 = repo1.update pending, 2 = repo2.update pending
    log_output,       \* stdout of the log command (text for "line", blocks for "xml")
    changes,          \* parsed change records, in replay order
    idx,              \* position of the next record to replay
    srcfs,            \* source working copy: path -> content
    fs,               \* target working copy files: path -> content
    index,            \* target working copy index: path -> versioning state
    files_to_commit,  \* RepoSyncer.sync_changes: list of touched destination paths
    cmds,             \* commands issued so far in this run, with their exit codes
    outcomes,         \* per-record outcome of replay, in order
    effects,          \* per-record content left in the target file ("-" when the file was not touched)
    status            \* how the run ended

\* core/lock.py: FileLock objects on one lock file path
VARIABLES
    pidOf,            \* FileLock.pid of each object: the process that constructed it
    deftmo,           \* FileLock.timeout of each object: the constructor's timeout
    fd,               \* FileLock.fd of each object: "none" or "open"
    lpc,              \* where each object's caller stands: idle, in acquire's loop, in a with-body
    tmo,              \* acquire: the timeout in force for the call in progress
    start,            \* acquire: start_time of the call in progress
    inWith,           \* the call in progress was made by file_lock / __enter__ (result ignored)
    result,           \* what the latest call on each object returned
    granted,          \* acquire() has returned True and release() has not been called since
    flock,            \* the kernel's lock on the file: Free or the open file description holding it
    lockfile,         \* content of the lock file: Missing or its text
    now               \* the clock, in units of acquire's sleep interval

pipeVars == <<variant, entry, svnInstalled, stage, updStep, log_output, changes, idx,
              srcfs, fs, index, files_to_commit, cmds, outcomes, effects, status>>

lockVars == <<pidOf, deftmo, fd, lpc, tmo, start, inWith, result, granted, flock,
              lockfile, now>>

\* two RepoSyncer runs on one target working copy (fs and index are the target)
VARIABLES
    guarded,          \* whether each run is made inside `with file_lock(target lock, -1)`
    rchanges,         \* sync_changes of each run: its parsed change records
    rstage,           \* each run's stage
    ridx,             \* each run's position in its records
    rfiles,           \* each run's files_to_commit
    rlast,            \* per run and path: what the run's replay last left in the file ("-" untouched)
    rcommitted        \* per run and path: the file content its commit covered ("-" not committed)

raceVars == <<guarded, rchanges, rstage, ridx, rfiles, rlast, rcommitted>>

\* the script invoked twice in a row on the same working copies
VARIABLES
    run,              \* 0 = a single invocation; 1, 2 = first and second of two invocations
    first             \* what the first invocation left: target files, log window, records

rerunVars == <<run, first>>

\* what a step of one pipeline run leaves alone
besideRun == <<lockVars, raceVars, rerunVars>>

\* what a call on a FileLock leaves alone
besideLock == <<pipeVars, raceVars, rerunVars>>

vars == <<pipeVars, lockVars, raceVars, rerunVars>>

----------------------------------------------------------------------------
(* Bounds *)
MaxLines == 3      \* lines of a generated line-oriented log
MaxRecs == 2       \* records handed directly to SVNRepoSync.sync_changes
MaxBlocks == 2     \* logentry blocks of a generated XML log
MaxRerunLines == 2 \* lines of the log window of an invocation that is repeated

ABSENT == "absent"
NoRev == <<>>          \* current_revision = None: no revision text

Paths == { <<"a">>, <<"b">> }
Digits == {"0", "1", "2", "3", "4", "5", "6", "7", "8", "9"}
Whitespace == {" ", "\t", "\n"}

BoundedSeq(S, n) == UNION { [1..k -> S] : k \in 0..n }
SeqRange(s) == { s[i] : i \in 1..Len(s) }

----------------------------------------------------------------------------
(* Text helpers: Python str operations on character sequences *)

\* s[n:] with a 0-based n
Slice(s, n) == IF n >= Len(s) THEN <<>> ELSE SubSeq(s, n + 1, Len(s))

\* s.startswith(p)
StartsWith(s, p) == Len(s) >= Len(p) /\ SubSeq(s, 1, Len(p)) = p

RECURSIVE LStripSet(_, _)
LStripSet(s, cs) ==
    IF s # <<>> /\ Head(s) \in cs THEN LStripSet(Tail(s), cs) ELSE s

RECURSIVE RStripSet(_, _)
RStripSet(s, cs) ==
    IF s # <<>> /\ s[Len(s)] \in cs THEN RStripSet(SubSeq(s, 1, Len(s) - 1), cs) ELSE s

\* s.strip()
Strip(s) == RStripSet(LStripSet(s, Whitespace), Whitespace)

\* the longest prefix of s made of digits: what (\d+) captures
RECURSIVE DigitPrefix(_)
DigitPrefix(s) ==
    IF s # <<>> /\ Head(s) \in Digits THEN <<Head(s)>> \o DigitPrefix(Tail(s)) ELSE <<>>

\* text.split('\n')
RECURSIVE SplitLines(_, _)
SplitLines(text, cur) ==
    IF text = <<>> THEN <<cur>>
    ELSE IF Head(text) = "\n" THEN <<cur>> \o SplitLines(Tail(text), <<>>)
    ELSE SplitLines(Tail(text), Append(cur, Head(text)))

\* '\n'.join(lines): how the log text reaches the parser
RECURSIVE JoinLines(_)
JoinLines(ls) ==
    IF ls = <<>> THEN <<>>
    ELSE IF Len(ls) = 1 THEN ls[1]
    ELSE ls[1] \o <<"\n">> \o JoinLines(Tail(ls))

----------------------------------------------------------------------------
(* RepoSyncer.parse_log_entry: the line-oriented parser *)

\* re.match(r'^r(\d+)', line)
IsRevLine(line) == Len(line) >= 2 /\ line[1] = "r" /\ line[2] \in Digits

\* rev_match.group(1)
RevOf(line) == DigitPrefix(Slice(line, 1))

\* line.startswith('A ') or line.startswith('M ') or line.startswith('D ')
IsChangeLine(line) ==
    \/ StartsWith(line, <<"A", " ">>)
    \/ StartsWith(line, <<"M", " ">>)
    \/ StartsWith(line, <<"D", " ">>)

\* the dict appended for one change line
LineRecord(line, current_revision) ==
    [revision |-> current_revision, action |-> <<line[1]>>, path |-> Strip(Slice(line, 2))]

\* the body of the for loop, folded over the lines
RECURSIVE ParseLines(_, _, _)
ParseLines(lines, current_revision, acc) ==
    IF lines = <<>> THEN acc
    ELSE LET line == Head(lines) IN
         IF IsRevLine(line) THEN ParseLines(Tail(lines), RevOf(line), acc)
         ELSE IF IsChangeLine(line)
              THEN ParseLines(Tail(lines), current_revision,
                              Append(acc, LineRecord(line, current_revision)))
              ELSE ParseLines(Tail(lines), current_revision, acc)

parse_log_entry(text) == ParseLines(SplitLines(text, <<>>), NoRev, <<>>)

----------------------------------------------------------------------------
(* SVNRepoSync.get_recent_commits: the block-structured parser.            *)
(* A logentry block is given by what the regular expressions see of it:    *)
(*   body_rev : the text matched by revision="(\d+)" inside the text       *)
(*              between <logentry ...> and </logentry> (the opening tag,   *)
(*              where svn writes the revision, is not part of that text),  *)
(*   entries  : the texts captured between <path ...> and </path>.         *)

\* the first position (1-based) at which pat occurs in s, 0 when it does not
RECURSIVE FindFrom(_, _, _)
FindFrom(s, pat, i) ==
    IF i + Len(pat) - 1 > Len(s) THEN 0
    ELSE IF SubSeq(s, i, i + Len(pat) - 1) = pat THEN i
    ELSE FindFrom(s, pat, i + 1)

ClosePathTag == <<"<", "/", "p", "a", "t", "h", ">">>

\* re.search(r">(.*?)</path>", path_entry) finds a match
PathValueMatches(path_entry) ==
    LET gt == FindFrom(path_entry, <<">">>, 1) IN
    gt > 0 /\ FindFrom(path_entry, ClosePathTag, gt + 1) > 0

\* one block of the for loop: "raise" stands for the AttributeError of
\* re.search(...).group(1) on a failed search
BlockResult(block) ==
    IF block.body_rev = NoRev THEN [kind |-> "skip"]
    ELSE IF \E i \in 1..Len(block.entries) : ~PathValueMatches(block.entries[i])
         THEN [kind |-> "raise"]
         ELSE [kind |-> "commit", revision |-> block.body_rev]

RECURSIVE ParseBlocks(_, _)
ParseBlocks(blocks, acc) ==
    IF blocks = <<>> THEN [raised |-> FALSE, commits |-> acc]
    ELSE LET r == BlockResult(Head(blocks)) IN
         IF r.kind = "raise" THEN [raised |-> TRUE, commits |-> acc]
         ELSE IF r.kind = "skip" THEN ParseBlocks(Tail(blocks), acc)
         ELSE ParseBlocks(Tail(blocks), Append(acc, r.revision))

get_recent_commits(blocks) == ParseBlocks(blocks, <<>>)

----------------------------------------------------------------------------
(* Action tokens and the branches the two replay loops take on them *)

TokA == <<"A">>
TokM == <<"M">>
TokD == <<"D">>
TokR == <<"R">>
TokX == <<"X">>
TokADD == <<"A", "D", "D">>
TokMODIFY == <<"M", "O", "D", "I", "F", "Y">>
TokDELETE == <<"D", "E", "L", "E", "T", "E">>
TokREPLACE == <<"R", "E", "P", "L", "A", "C", "E">>

\* RepoSyncer.sync_changes: if action in ['A', 'M'] ... elif action == 'D'
LineBranch(action) ==
    IF action \in {TokA, TokM} THEN "write"
    ELSE IF action = TokD THEN "delete"
    ELSE "skip"

\* RepoSyncer.sync_changes: if change['action'] == 'A': self.repo2.add([dst_path])
LineStages(action) == action = TokA

\* SVNRepoSync.sync_changes: if action in ("ADD", "MODIFY", "REPLACE") ... elif action == "DELETE"
XmlBranch(action) ==
    IF action \in {TokADD, TokMODIFY, TokREPLACE} THEN "write"
    ELSE IF action = TokDELETE THEN "delete"
    ELSE "skip"

\* variants of the existence check before a delete: inverted, and left out
DeleteIssuesCommand_Inverted(content) == content = ABSENT

DeleteIssuesCommand_Always(content) == TRUE

\* both loops: if os.path.exists(dst_path): the delete command is issued only then
DeleteIssuesCommand(content) == content # ABSENT

\* change['path'].lstrip('/')
XmlTargetPath(path) == LStripSet(path, {"/"})

\* variant of the write that does not overwrite an existing file
ContentAfterWrite_KeepExisting(old, new) == IF old = ABSENT THEN new ELSE old

\* variant of the write that opens the destination in append mode
ContentAfterWrite_Append(old, new) == IF old = ABSENT THEN new ELSE old \o new

\* shutil.copy2 / f.write: the destination holds the new content afterwards
ContentAfterWrite(old, new) == new

----------------------------------------------------------------------------
(* The svn binary's effect on the target working copy when it exits 0.     *)
(* Index states: "none" (unversioned), "added", "tracked", "deleted".      *)

IndexAfterAdd(ix) == IF ix = "none" THEN "added" ELSE IF ix = "deleted" THEN "tracked" ELSE ix

\* a raw unlink: the file goes, the index is left as it was
IndexAfterDelete_RawUnlink(ix) == ix

IndexAfterDelete(ix) == IF ix = "tracked" THEN "deleted" ELSE IF ix = "added" THEN "none" ELSE ix

IndexAfterCommit(ix) == IF ix = "added" THEN "tracked" ELSE IF ix = "deleted" THEN "none" ELSE ix

\* exit codes a command can produce through SVNClient._run_command (the binary ran)
ExitCodes == {0, 1}

\* exit codes through SVNRepoSync.run_svn_command: FileNotFoundError is turned into 1
XmlExitCodes == IF svnInstalled THEN {0, 1} ELSE {1}

\* a command and its result; err is the text the command left on stderr
CmdErr(verb, repo, path, rc, err) ==
    [verb |-> verb, repo |-> repo, path |-> path, rc |-> rc, err |-> err]

Cmd(verb, repo, path, rc) == CmdErr(verb, repo, path, rc, "")

\* what the binary may leave on stderr, with any exit code
StderrTexts == {"", "warning"}

\* stderr through SVNRepoSync.run_svn_command
XmlStderrTexts == IF svnInstalled THEN StderrTexts ELSE {"svn command not found"}

\* variants of the boolean verbs: the result ignored, and stderr scanned for a failure
ReturnsTrue_Always(code, err) == TRUE

ReturnsTrue_StderrScan(code, err) == code = 0 /\ err = ""

\* SVNClient.update / commit / add / delete / ...: return code == 0
ReturnsTrue(code, err) == code = 0

\* variant of the commit that clears the working copy when the commit fails
FilesAfterCommit_Rollback(f, rc) == IF rc # 0 THEN [p \in Paths |-> ABSENT] ELSE f

\* a commit's effect on the files of the working copy: none, whatever the exit code
FilesAfterCommit(f, rc) == f

\* variant of the commit result that goes back to replay on a failed commit
LineStageAfterCommit_Retry(rc) == IF rc = 0 THEN "Done" ELSE "Replaying"

\* RepoSyncer: return self.repo2.commit(...); main prints the result
LineStageAfterCommit(rc) == IF rc = 0 THEN "Done" ELSE "Failed"

\* variant of the replay loop that is left after its first record
LoopExhausted_AfterFirst(i, n) == i > 1

\* "for change in changes:" has run out of records (i is the next position, n the length)
LoopExhausted(i, n) == i > n

\* SVNRepoSync.commit_changes: raise on a non-zero exit, nothing catches it
XmlStageAfterCommit(rc) == IF rc = 0 THEN "Done" ELSE "Failed"

----------------------------------------------------------------------------
(* Inputs *)

LineSet ==
    { <<"r", "1">>,
      <<"r", "1", "2", " ", "|">>,
      <<"A", " ", "a">>,
      <<"M", " ", "a">>,
      <<"D", " ", "a">>,
      <<"D", " ", "b", " ">>,
      <<"X", " ", "a">>,
      <<"A", "D", "D", " ", "a">> }

\* r1 / A a / r2 / M a / r3 / D b: the end-to-end example with short paths
ExampleLines ==
    << <<"r", "1">>, <<"A", " ", "a">>, <<"r", "2">>, <<"M", " ", "a">>,
       <<"r", "3">>, <<"D", " ", "b">> >>

\* r12 | / M a / r1 / A a: a log in svn's default order, newest revision first
NewestFirstLines ==
    << <<"r", "1", "2", " ", "|">>, <<"M", " ", "a">>, <<"r", "1">>, <<"A", " ", "a">> >>

RawLogs ==
    { JoinLines(ls) : ls \in BoundedSeq(LineSet, MaxLines) }
        \cup { JoinLines(ExampleLines), JoinLines(NewestFirstLines) }

XmlEntryTexts == { <<"/", "a">> }

XmlBlocks ==
    [ body_rev : {NoRev, <<"7">>},
      entries : BoundedSeq(XmlEntryTexts, 1) ]

XmlLogs == BoundedSeq(XmlBlocks, MaxBlocks)

ApiTokens == {TokADD, TokMODIFY, TokREPLACE, TokDELETE, TokA, TokX}

ApiRecords == [ revision : {<<"7">>}, action : ApiTokens, path : { <<"/", "a">>, <<"b">> } ]

ApiInputs == BoundedSeq(ApiRecords, MaxRecs)

SrcContents == {ABSENT, "new"}
CatContents == {"v1", "v2"}

\* Two invocations in a row: the second sees the log window of the first (the
\* same `svn log` answer, the same records handed to sync_changes) and an
\* unchanged source (`svn cat` of a path gives the same content every time).
FirstRunLogs ==
    { JoinLines(ls) : ls \in BoundedSeq(LineSet, MaxRerunLines) }
        \cup { JoinLines(ExampleLines), JoinLines(NewestFirstLines) }

LogWindow ==
    IF run = 0 THEN RawLogs ELSE IF run = 1 THEN FirstRunLogs ELSE {first.log}

XmlLogWindow == IF run = 2 THEN {first.log} ELSE XmlLogs

ApiWindow == IF run = 2 THEN {first.changes} ELSE ApiInputs

CatWindow == IF run = 0 THEN CatContents ELSE {"v1"}

----------------------------------------------------------------------------
(* core/lock.py: FileLock, an advisory lock over flock(2).  Every os.open  *)
(* makes a new open file description, and the kernel's lock belongs to the *)
(* description that took it until that description is unlocked or closed.  *)

MaxTime == 2          \* the clock's horizon

Locks == {"L1", "L2"}
Pids == {7, 12}
Timeouts == {-1, 0, 2}

Free == <<>>          \* flock: no open file description holds the lock
NoArg == <<>>         \* acquire(timeout=None)
NoPid == <<>>         \* get_owner_pid() returns None

\* the number a decimal text denotes: int(text) on digits
DigitValue(c) ==
    CASE c = "0" -> 0 [] c = "1" -> 1 [] c = "2" -> 2 [] c = "3" -> 3 [] c = "4" -> 4
      [] c = "5" -> 5 [] c = "6" -> 6 [] c = "7" -> 7 [] c = "8" -> 8 [] c = "9" -> 9

RECURSIVE RevNum(_)
RevNum(rev) ==
    IF rev = <<>> THEN 0
    ELSE 10 * RevNum(SubSeq(rev, 1, Len(rev) - 1)) + DigitValue(rev[Len(rev)])

DigitChar(d) == CHOOSE c \in Digits : DigitValue(c) = d

\* str(n) for n >= 0
RECURSIVE DigitsOf(_)
DigitsOf(n) ==
    IF n < 10 THEN <<DigitChar(n)>> ELSE DigitsOf(n \div 10) \o <<DigitChar(n % 10)>>

\* acquire: f"{self.pid}\n"
PidText(pid) == DigitsOf(pid) \o <<"\n">>

\* f.readline(): the text up to and including the first newline
RECURSIVE ReadLine(_)
ReadLine(text) ==
    IF text = <<>> THEN <<>>
    ELSE IF Head(text) = "\n" THEN <<"\n">>
    ELSE <<Head(text)>> \o ReadLine(Tail(text))

\* get_owner_pid: int(f.readline().strip()); IOError and ValueError give None
get_owner_pid(file) ==
    IF ~file.exists THEN NoPid
    ELSE LET t == Strip(ReadLine(file.text)) IN
         IF t = <<>> \/ \E i \in 1..Len(t) : t[i] \notin Digits THEN NoPid
         ELSE <<RevNum(t)>>

\* variant of acquire that uses the object's default whatever the call passes
EffectiveTimeout_IgnoreArg(arg, default) == default

\* acquire: timeout = timeout if timeout is not None else self.timeout
EffectiveTimeout(arg, default) == IF arg # NoArg THEN arg[1] ELSE default

\* variant of flock that grants the lock whoever holds it
FlockGranted_Always(owner) == TRUE

\* fcntl.flock(fd, LOCK_EX | LOCK_NB) on a fresh description: granted when no
\* other description holds the lock, EAGAIN otherwise
FlockGranted(owner) == owner = Free

\* variant of acquire that never gives up
TimedOut_Never(timeout, elapsed) == FALSE

\* variant of acquire that gives up at the first refusal
TimedOut_AtOnce(timeout, elapsed) == TRUE

\* acquire: timeout >= 0 and time.time() - start_time >= timeout
TimedOut(timeout, elapsed) == timeout >= 0 /\ elapsed >= timeout

\* acquire overwrites self.fd with the new descriptor: a description this
\* object still held through the old one stays open and locked, unreferenced
FlockAfterReopen(owner, o, fdstate) ==
    IF fdstate = "open" /\ owner = <<o, "fd">> THEN <<o, "leak">> ELSE owner

\* release: if self.fd is not None: flock(self.fd, LOCK_UN); os.close(self.fd)
FlockAfterRelease(owner, o, fdstate) ==
    IF fdstate = "open" /\ owner = <<o, "fd">> THEN Free ELSE owner

\* os.open(path, O_CREAT | O_RDWR): the file exists afterwards, content kept
FileAfterOpen(file) == [exists |-> TRUE, text |-> file.text]

\* tmo and start are locals of acquire: they are kept at -1 and 0 outside a call

\* the lock objects as constructed, before any call
LockConstructed ==
    /\ fd = [o \in Locks |-> "none"]
    /\ lpc = [o \in Locks |-> "idle"]
    /\ tmo = [o \in Locks |-> -1]
    /\ start = [o \in Locks |-> 0]
    /\ inWith = [o \in Locks |-> FALSE]
    /\ result = [o \in Locks |-> "none"]
    /\ granted = [o \in Locks |-> FALSE]
    /\ flock = Free
    /\ lockfile = [exists |-> FALSE, text |-> <<>>]
    /\ now = 0

\* no second run shares the target
SingleRun ==
    /\ guarded = FALSE
    /\ rchanges = [o \in Locks |-> <<>>]
    /\ rstage = [o \in Locks |-> "Idle"]
    /\ ridx = [o \in Locks |-> 1]
    /\ rfiles = [o \in Locks |-> <<>>]
    /\ rlast = [o \in Locks |-> [p \in Paths |-> "-"]]
    /\ rcommitted = [o \in Locks |-> [p \in Paths |-> "-"]]

\* the pipeline's own runs construct no FileLock of their own
LockUnused ==
    /\ pidOf = [o \in Locks |-> 7]
    /\ deftmo = [o \in Locks |-> -1]
    /\ LockConstructed

----------------------------------------------------------------------------
(* Initial state: a constructed syncer, nothing run yet.  The target is a  *)
(* clean working copy: a file is tracked exactly when it exists.           *)

CleanIndex(f) == [p \in Paths |-> IF f[p] = ABSENT THEN "none" ELSE "tracked"]

NoFirst == [fs |-> [p \in Paths |-> ABSENT], log |-> <<>>, changes |-> <<>>, clean |-> FALSE]

\* one invocation only: nothing is repeated
NoRerun == run = 0 /\ first = NoFirst

SyncerConstructed ==
    /\ variant \in {"line", "xml"}
    /\ entry \in (IF variant = "xml" THEN {"main", "api"} ELSE {"main"})
    /\ svnInstalled \in BOOLEAN
    /\ stage = "Idle"
    /\ updStep = 1
    /\ log_output = <<>>
    /\ changes = <<>>
    /\ idx = 1
    /\ srcfs \in (IF variant = "line" THEN [Paths -> SrcContents] ELSE {[p \in Paths |-> ABSENT]})
    /\ fs \in [Paths -> {ABSENT, "old"}]
    /\ index = CleanIndex(fs)
    /\ files_to_commit = <<>>
    /\ cmds = <<>>
    /\ outcomes = <<>>
    /\ effects = <<>>
    /\ status = "none"
    /\ LockUnused
    /\ SingleRun

Init == SyncerConstructed /\ NoRerun

----------------------------------------------------------------------------
(* RepoSyncer: main, update_repos, sync_changes *)

\* main: syncer.update_repos() is called
LineStart ==
    /\ variant = "line" /\ stage = "Idle"
    /\ stage' = "Updating"
    /\ UNCHANGED besideRun
    /\ UNCHANGED <<variant, entry, svnInstalled, updStep, log_output, changes, idx,
                   srcfs, fs, index, files_to_commit, cmds, outcomes, effects, status>>

\* update_repos: self.repo1.update() and self.repo2.update(); Popen raises
\* FileNotFoundError when the binary is missing and main does not catch it
LineUpdate ==
    /\ variant = "line" /\ stage = "Updating"
    /\ IF ~svnInstalled
       THEN /\ stage' = "Failed"
            /\ status' = "FileNotFoundError"
            /\ UNCHANGED <<cmds, updStep>>
       ELSE \E rc \in ExitCodes, err \in StderrTexts :
              /\ cmds' = Append(cmds, CmdErr("update", IF updStep = 1 THEN "repo1" ELSE "repo2",
                                             <<>>, rc, err))
              /\ IF ~ReturnsTrue(rc, err)
                 THEN /\ stage' = "Failed"
                      /\ status' = "Failed to update repositories"
                      /\ UNCHANGED updStep
                 ELSE IF updStep = 1
                      THEN /\ updStep' = 2
                           /\ UNCHANGED <<stage, status>>
                      ELSE /\ stage' = "FetchingLog"
                           /\ UNCHANGED <<updStep, status>>
    /\ UNCHANGED besideRun
    /\ UNCHANGED <<variant, entry, svnInstalled, log_output, changes, idx,
                   srcfs, fs, index, files_to_commit, outcomes, effects>>

\* sync_changes: log_output = self.repo1.log(limit=100); the exit code is dropped,
\* the stdout is stripped by _run_command.  A log command that exits non-zero
\* writes its message to stderr and leaves stdout empty.
LineFetchLog ==
    /\ variant = "line" /\ stage = "FetchingLog"
    /\ \E rc \in ExitCodes :
         \E out \in (IF rc = 0 THEN LogWindow ELSE {<<>>}) :
           /\ cmds' = Append(cmds, Cmd("log", "repo1", <<>>, rc))
           /\ log_output' = Strip(out)
    /\ stage' = "Parsing"
    /\ UNCHANGED besideRun
    /\ UNCHANGED <<variant, entry, svnInstalled, updStep, changes, idx,
                   srcfs, fs, index, files_to_commit, outcomes, effects, status>>

\* sync_changes: changes = self.parse_log_entry(log_output); files_to_commit = []
LineParse ==
    /\ variant = "line" /\ stage = "Parsing"
    /\ changes' = parse_log_entry(log_output)
    /\ files_to_commit' = <<>>
    /\ idx' = 1
    /\ stage' = "Replaying"
    /\ UNCHANGED besideRun
    /\ UNCHANGED <<variant, entry, svnInstalled, updStep, log_output,
                   srcfs, fs, index, cmds, outcomes, effects, status>>

\* sync_changes: one iteration of "for change in changes"
LineReplay ==
    /\ variant = "line" /\ stage = "Replaying" /\ idx <= Len(changes)
    /\ LET change == changes[idx]
           path == change.path
           branch == LineBranch(change.action)
       IN
       IF branch = "write"
       THEN IF srcfs[path] = ABSENT
            THEN \* copy_file raises; the except clause of sync_changes returns False
                 /\ stage' = "Failed"
                 /\ status' = "Failed to sync changes"
                 /\ outcomes' = Append(outcomes, "Failed")
                 /\ effects' = Append(effects, "-")
                 /\ UNCHANGED <<fs, index, cmds, files_to_commit, idx>>
            ELSE /\ fs' = [fs EXCEPT ![path] = ContentAfterWrite(fs[path], srcfs[path])]
                 /\ IF LineStages(change.action)
                    THEN \E rc \in ExitCodes :
                           /\ cmds' = Append(cmds, Cmd("add", "repo2", path, rc))
                           /\ index' = IF rc = 0
                                       THEN [index EXCEPT ![path] = IndexAfterAdd(index[path])]
                                       ELSE index
                           /\ outcomes' = Append(outcomes, IF rc = 0 THEN "Applied" ELSE "Failed")
                    ELSE /\ outcomes' = Append(outcomes, "Applied")
                         /\ UNCHANGED <<cmds, index>>
                 /\ effects' = Append(effects, srcfs[path])
                 /\ files_to_commit' = Append(files_to_commit, path)
                 /\ idx' = idx + 1
                 /\ UNCHANGED <<stage, status>>
       ELSE IF branch = "delete"
       THEN IF DeleteIssuesCommand(fs[path])
            THEN \E rc \in ExitCodes :
                   /\ cmds' = Append(cmds, Cmd("delete", "repo2", path, rc))
                   /\ fs' = IF rc = 0 THEN [fs EXCEPT ![path] = ABSENT] ELSE fs
                   /\ index' = IF rc = 0
                               THEN [index EXCEPT ![path] = IndexAfterDelete(index[path])]
                               ELSE index
                   /\ outcomes' = Append(outcomes, IF rc = 0 THEN "Applied" ELSE "Failed")
                   /\ effects' = Append(effects, IF rc = 0 THEN ABSENT ELSE "-")
                   /\ files_to_commit' = Append(files_to_commit, path)
                   /\ idx' = idx + 1
                   /\ UNCHANGED <<stage, status>>
            ELSE /\ outcomes' = Append(outcomes, "Applied")
                 /\ effects' = Append(effects, ABSENT)
                 /\ idx' = idx + 1
                 /\ UNCHANGED <<fs, index, cmds, files_to_commit, stage, status>>
       ELSE /\ outcomes' = Append(outcomes, "Skipped")
            /\ effects' = Append(effects, "-")
            /\ idx' = idx + 1
            /\ UNCHANGED <<fs, index, cmds, files_to_commit, stage, status>>
    /\ UNCHANGED besideRun
    /\ UNCHANGED <<variant, entry, svnInstalled, updStep, log_output, changes, srcfs>>

\* sync_changes: after the loop, "if files_to_commit:" ... else "return True"
LineReplayDone ==
    /\ variant = "line" /\ stage = "Replaying" /\ LoopExhausted(idx, Len(changes))
    /\ IF files_to_commit # <<>>
       THEN /\ stage' = "Committing"
            /\ UNCHANGED status
       ELSE /\ stage' = "Done"
            /\ status' = "Successfully synced changes"
    /\ UNCHANGED besideRun
    /\ UNCHANGED <<variant, entry, svnInstalled, updStep, log_output, changes, idx,
                   srcfs, fs, index, files_to_commit, cmds, outcomes, effects>>

\* sync_changes: return self.repo2.commit(message, paths=files_to_commit)
LineCommit ==
    /\ variant = "line" /\ stage = "Committing"
    /\ \E rc \in ExitCodes, err \in StderrTexts :
         /\ cmds' = Append(cmds, CmdErr("commit", "repo2", files_to_commit, rc, err))
         /\ fs' = FilesAfterCommit(fs, rc)
         /\ index' = IF rc = 0
                     THEN [p \in Paths |-> IF p \in SeqRange(files_to_commit)
                                           THEN IndexAfterCommit(index[p]) ELSE index[p]]
                     ELSE index
         /\ stage' = LineStageAfterCommit(IF ReturnsTrue(rc, err) THEN 0 ELSE 1)
         /\ status' = IF ReturnsTrue(rc, err) THEN "Successfully synced changes"
                      ELSE "Failed to sync changes"
    /\ UNCHANGED besideRun
    /\ UNCHANGED <<variant, entry, svnInstalled, updStep, log_output, changes, idx,
                   srcfs, files_to_commit, outcomes, effects>>

----------------------------------------------------------------------------
(* SVNRepoSync: the __main__ block, update_repo, get_recent_commits,       *)
(* sync_changes, svn_delete, commit_changes                                *)

\* __main__: sync.update_repo(repo2_path) is called
XmlStart ==
    /\ variant = "xml" /\ entry = "main" /\ stage = "Idle"
    /\ stage' = "Updating"
    /\ UNCHANGED besideRun
    /\ UNCHANGED <<variant, entry, svnInstalled, updStep, log_output, changes, idx,
                   srcfs, fs, index, files_to_commit, cmds, outcomes, effects, status>>

\* a caller hands a commit list to sync_changes, then calls commit_changes
XmlCallSyncChanges ==
    /\ variant = "xml" /\ entry = "api" /\ stage = "Idle"
    /\ \E input \in ApiWindow : changes' = input
    /\ idx' = 1
    /\ stage' = "Replaying"
    /\ UNCHANGED besideRun
    /\ UNCHANGED <<variant, entry, svnInstalled, updStep, log_output,
                   srcfs, fs, index, files_to_commit, cmds, outcomes, effects, status>>

\* update_repo: raise Exception("SVN update failed") on a non-zero exit
XmlUpdate ==
    /\ variant = "xml" /\ stage = "Updating"
    /\ \E rc \in XmlExitCodes, err \in XmlStderrTexts :
         /\ cmds' = Append(cmds, CmdErr("update", "repo2", <<>>, rc, err))
         /\ IF rc = 0
            THEN /\ stage' = "FetchingLog"
                 /\ UNCHANGED status
            ELSE /\ stage' = "Failed"
                 /\ status' = "SVN update failed"
    /\ UNCHANGED besideRun
    /\ UNCHANGED <<variant, entry, svnInstalled, updStep, log_output, changes, idx,
                   srcfs, fs, index, files_to_commit, outcomes, effects>>

\* get_recent_commits: the log command; "return []" on a non-zero exit
XmlFetchLog ==
    /\ variant = "xml" /\ stage = "FetchingLog"
    /\ \E rc \in XmlExitCodes :
         /\ cmds' = Append(cmds, Cmd("log", "repo1", <<>>, rc))
         /\ IF rc = 0
            THEN /\ \E out \in XmlLogWindow : log_output' = out
                 /\ stage' = "Parsing"
                 /\ UNCHANGED <<changes, idx>>
            ELSE /\ changes' = <<>>
                 /\ idx' = 1
                 /\ stage' = "Replaying"
                 /\ UNCHANGED log_output
    /\ UNCHANGED besideRun
    /\ UNCHANGED <<variant, entry, svnInstalled, updStep,
                   srcfs, fs, index, files_to_commit, outcomes, effects, status>>

\* get_recent_commits: the parsing loop.  Every commit it returns has an empty
\* changed_paths list (a block with a path entry raises), so the flattened
\* record list handed to sync_changes is empty.
XmlParse ==
    /\ variant = "xml" /\ stage = "Parsing"
    /\ LET r == get_recent_commits(log_output) IN
       IF r.raised
       THEN /\ stage' = "Failed"
            /\ status' = "AttributeError"
            /\ UNCHANGED <<changes, idx>>
       ELSE /\ changes' = <<>>
            /\ idx' = 1
            /\ stage' = "Replaying"
            /\ UNCHANGED status
    /\ UNCHANGED besideRun
    /\ UNCHANGED <<variant, entry, svnInstalled, updStep, log_output,
                   srcfs, fs, index, files_to_commit, cmds, outcomes, effects>>

\* sync_changes: one iteration of "for change in commit['changed_paths']"
XmlReplay ==
    /\ variant = "xml" /\ stage = "Replaying" /\ idx <= Len(changes)
    /\ LET change == changes[idx]
           path == XmlTargetPath(change.path)
           branch == XmlBranch(change.action)
       IN
       IF branch = "write"
       THEN \E rc \in XmlExitCodes :
              /\ cmds' = Append(cmds, Cmd("cat", "repo1", change.path, rc))
              /\ IF rc = 0
                 THEN /\ \E content \in CatWindow :
                           /\ fs' = [fs EXCEPT ![path] = ContentAfterWrite(fs[path], content)]
                           /\ effects' = Append(effects, content)
                      /\ outcomes' = Append(outcomes, "Applied")
                 ELSE /\ outcomes' = Append(outcomes, "Failed")
                      /\ effects' = Append(effects, "-")
                      /\ UNCHANGED fs
              /\ UNCHANGED index
       ELSE IF branch = "delete"
       THEN IF DeleteIssuesCommand(fs[path])
            THEN \E rc \in XmlExitCodes :
                   \* svn_delete: delete --force; its exception is caught by the loop
                   /\ cmds' = Append(cmds, Cmd("delete", "repo2", path, rc))
                   /\ fs' = IF rc = 0 THEN [fs EXCEPT ![path] = ABSENT] ELSE fs
                   /\ index' = IF rc = 0
                               THEN [index EXCEPT ![path] = IndexAfterDelete(index[path])]
                               ELSE index
                   /\ outcomes' = Append(outcomes, IF rc = 0 THEN "Applied" ELSE "Failed")
                   /\ effects' = Append(effects, IF rc = 0 THEN ABSENT ELSE "-")
            ELSE /\ outcomes' = Append(outcomes, "Applied")
                 /\ effects' = Append(effects, ABSENT)
                 /\ UNCHANGED <<fs, index, cmds>>
       ELSE /\ outcomes' = Append(outcomes, "Skipped")
            /\ effects' = Append(effects, "-")
            /\ UNCHANGED <<fs, index, cmds>>
    /\ idx' = idx + 1
    /\ UNCHANGED besideRun
    /\ UNCHANGED <<variant, entry, svnInstalled, stage, updStep, log_output, changes,
                   srcfs, files_to_commit, status>>

\* __main__: sync.commit_changes() follows sync_changes unconditionally
XmlReplayDone ==
    /\ variant = "xml" /\ stage = "Replaying" /\ LoopExhausted(idx, Len(changes))
    /\ stage' = "Committing"
    /\ UNCHANGED besideRun
    /\ UNCHANGED <<variant, entry, svnInstalled, updStep, log_output, changes, idx,
                   srcfs, fs, index, files_to_commit, cmds, outcomes, effects, status>>

\* commit_changes: "add --force ." (its exit code only printed), then commit
XmlCommit ==
    /\ variant = "xml" /\ stage = "Committing"
    /\ \E rcAdd \in XmlExitCodes, rc \in XmlExitCodes, err \in XmlStderrTexts :
         LET staged == IF rcAdd = 0
                       THEN [p \in Paths |-> IF fs[p] # ABSENT
                                             THEN IndexAfterAdd(index[p]) ELSE index[p]]
                       ELSE index
         IN
         /\ cmds' = cmds \o << Cmd("add", "repo2", <<".">>, rcAdd),
                               CmdErr("commit", "repo2", <<>>, rc, err) >>
         /\ fs' = FilesAfterCommit(fs, rc)
         /\ index' = IF rc = 0 THEN [p \in Paths |-> IndexAfterCommit(staged[p])] ELSE staged
         /\ stage' = XmlStageAfterCommit(rc)
         /\ status' = IF rc = 0 THEN "SVN repository synchronization completed."
                      ELSE "SVN commit failed"
    /\ UNCHANGED besideRun
    /\ UNCHANGED <<variant, entry, svnInstalled, updStep, log_output, changes, idx,
                   srcfs, files_to_commit, outcomes, effects>>

----------------------------------------------------------------------------
Next ==
    \/ LineStart
    \/ LineUpdate
    \/ LineFetchLog
    \/ LineParse
    \/ LineReplay
    \/ LineReplayDone
    \/ LineCommit
    \/ XmlStart
    \/ XmlCallSyncChanges
    \/ XmlUpdate
    \/ XmlFetchLog
    \/ XmlParse
    \/ XmlReplay
    \/ XmlReplayDone
    \/ XmlCommit

Spec == Init /\ [][Next]_vars

TypeOK ==
    /\ stage \in {"Idle", "Updating", "FetchingLog", "Parsing", "Replaying",
                  "Committing", "Done", "Failed"}
    /\ idx \in 1..(Len(changes) + 1)
    /\ \A p \in Paths : index[p] \in {"none", "added", "tracked", "deleted"}

----------------------------------------------------------------------------
(* core/lock.py: the calls on FileLock objects that share one lock file    *)

\* a pipeline that is constructed and not run while the lock is exercised
PipelineConstructed ==
    /\ variant = "line" /\ entry = "main" /\ svnInstalled = TRUE
    /\ stage = "Idle" /\ updStep = 1
    /\ log_output = <<>> /\ changes = <<>> /\ idx = 1
    /\ srcfs = [p \in Paths |-> "new"]
    /\ fs = [p \in Paths |-> "old"]
    /\ index = CleanIndex(fs)
    /\ files_to_commit = <<>> /\ cmds = <<>> /\ outcomes = <<>> /\ effects = <<>>
    /\ status = "none"
    /\ NoRerun

LockInit ==
    /\ PipelineConstructed
    /\ SingleRun
    /\ pidOf \in { [o \in Locks |-> IF o = "L1" THEN 7 ELSE p] : p \in Pids }
    /\ deftmo \in { [o \in Locks |-> IF o = "L1" THEN t ELSE -1] : t \in Timeouts }
    /\ LockConstructed

\* lock.acquire(timeout): the call starts, start_time = time.time()
AcquireCall(o) ==
    /\ lpc[o] = "idle"
    /\ \E arg \in {NoArg} \cup { <<t>> : t \in Timeouts } :
         LET t == EffectiveTimeout(arg, deftmo[o]) IN
         /\ t = -1 \/ now + t <= MaxTime
         /\ tmo' = [tmo EXCEPT ![o] = t]
    /\ start' = [start EXCEPT ![o] = now]
    /\ lpc' = [lpc EXCEPT ![o] = "attempt"]
    /\ inWith' = [inWith EXCEPT ![o] = FALSE]
    /\ UNCHANGED <<pidOf, deftmo, fd, result, granted, flock, lockfile, now>>
    /\ UNCHANGED besideLock

\* with file_lock(path, timeout) / with FileLock(path, timeout): lock.acquire()
\* with no argument, its return value dropped
EnterWith(o) ==
    /\ lpc[o] = "idle"
    /\ LET t == EffectiveTimeout(NoArg, deftmo[o]) IN
         /\ t = -1 \/ now + t <= MaxTime
         /\ tmo' = [tmo EXCEPT ![o] = t]
    /\ start' = [start EXCEPT ![o] = now]
    /\ lpc' = [lpc EXCEPT ![o] = "attempt"]
    /\ inWith' = [inWith EXCEPT ![o] = TRUE]
    /\ UNCHANGED <<pidOf, deftmo, fd, result, granted, flock, lockfile, now>>
    /\ UNCHANGED besideLock

\* acquire: one pass of the while loop: open, flock, then either write the
\* PID and return True, or close and return False / go to sleep
Attempt(o) ==
    /\ lpc[o] = "attempt"
    /\ LET owner == FlockAfterReopen(flock, o, fd[o])
           after == IF inWith[o] THEN "body" ELSE "idle"
       IN
       IF FlockGranted(owner)
       THEN /\ flock' = <<o, "fd">>
            /\ fd' = [fd EXCEPT ![o] = "open"]
            /\ lockfile' = [exists |-> TRUE, text |-> PidText(pidOf[o])]
            /\ result' = [result EXCEPT ![o] = "True"]
            /\ granted' = [granted EXCEPT ![o] = TRUE]
            /\ lpc' = [lpc EXCEPT ![o] = after]
            /\ tmo' = [tmo EXCEPT ![o] = -1]
            /\ start' = [start EXCEPT ![o] = 0]
       ELSE /\ flock' = owner
            /\ fd' = [fd EXCEPT ![o] = "none"]
            /\ lockfile' = FileAfterOpen(lockfile)
            /\ UNCHANGED granted
            /\ IF TimedOut(tmo[o], now - start[o])
               THEN /\ result' = [result EXCEPT ![o] = "False"]
                    /\ lpc' = [lpc EXCEPT ![o] = after]
                    /\ tmo' = [tmo EXCEPT ![o] = -1]
                    /\ start' = [start EXCEPT ![o] = 0]
               ELSE /\ lpc' = [lpc EXCEPT ![o] = "sleep"]
                    /\ UNCHANGED <<result, tmo, start>>
    /\ UNCHANGED <<pidOf, deftmo, inWith, now>>
    /\ UNCHANGED besideLock

\* time.sleep(0.1) ends for every sleeper: one sleep interval has passed
Tick ==
    /\ now' = IF now < MaxTime THEN now + 1 ELSE now
    /\ lpc' = [o \in Locks |-> IF lpc[o] = "sleep" THEN "attempt" ELSE lpc[o]]
    /\ UNCHANGED <<pidOf, deftmo, fd, tmo, start, inWith, result, granted, flock, lockfile>>
    /\ UNCHANGED besideLock

\* lock.release() called by hand
Release(o) ==
    /\ lpc[o] = "idle"
    /\ flock' = FlockAfterRelease(flock, o, fd[o])
    /\ fd' = [fd EXCEPT ![o] = "none"]
    /\ result' = [result EXCEPT ![o] = "released"]
    /\ granted' = [granted EXCEPT ![o] = FALSE]
    /\ UNCHANGED <<pidOf, deftmo, lpc, tmo, start, inWith, lockfile, now>>
    /\ UNCHANGED besideLock

\* the with-body ends: file_lock's finally / __exit__ calls lock.release()
ExitWith(o) ==
    /\ lpc[o] = "body"
    /\ flock' = FlockAfterRelease(flock, o, fd[o])
    /\ fd' = [fd EXCEPT ![o] = "none"]
    /\ result' = [result EXCEPT ![o] = "released"]
    /\ granted' = [granted EXCEPT ![o] = FALSE]
    /\ lpc' = [lpc EXCEPT ![o] = "idle"]
    /\ inWith' = [inWith EXCEPT ![o] = FALSE]
    /\ UNCHANGED <<pidOf, deftmo, tmo, start, lockfile, now>>
    /\ UNCHANGED besideLock

\* is_locked: open without O_CREAT, flock(LOCK_EX | LOCK_NB) on a probe descriptor
IsLockedCall(o) ==
    /\ lpc[o] = "idle"
    /\ IF ~lockfile.exists
       THEN /\ result' = [result EXCEPT ![o] = "is_locked False"]
            /\ UNCHANGED <<flock, lpc>>
       ELSE IF FlockGranted(flock)
       THEN /\ flock' = <<o, "probe">>
            /\ lpc' = [lpc EXCEPT ![o] = "probing"]
            /\ UNCHANGED result
       ELSE /\ result' = [result EXCEPT ![o] = "is_locked True"]
            /\ UNCHANGED <<flock, lpc>>
    /\ UNCHANGED <<pidOf, deftmo, fd, tmo, start, inWith, granted, lockfile, now>>
    /\ UNCHANGED besideLock

\* is_locked: flock(LOCK_UN), return False, close
IsLockedDone(o) ==
    /\ lpc[o] = "probing"
    /\ flock' = IF flock = <<o, "probe">> THEN Free ELSE flock
    /\ lpc' = [lpc EXCEPT ![o] = "idle"]
    /\ result' = [result EXCEPT ![o] = "is_locked False"]
    /\ UNCHANGED <<pidOf, deftmo, fd, tmo, start, inWith, granted, lockfile, now>>
    /\ UNCHANGED besideLock

LockNext ==
    \/ \E o \in Locks : AcquireCall(o)
    \/ \E o \in Locks : EnterWith(o)
    \/ \E o \in Locks : Attempt(o)
    \/ Tick
    \/ \E o \in Locks : Release(o)
    \/ \E o \in Locks : ExitWith(o)
    \/ \E o \in Locks : IsLockedCall(o)
    \/ \E o \in Locks : IsLockedDone(o)

LockSpec == LockInit /\ [][LockNext]_vars

\* every process keeps running: a call in progress takes its next step and
\* sleeps end; starting a call, and releasing, are up to the callers
FairLockSpec ==
    /\ LockSpec
    /\ WF_vars(Tick)
    /\ \A o \in Locks : WF_vars(Attempt(o)) /\ WF_vars(IsLockedDone(o))

LockTypeOK ==
    /\ \A o \in Locks :
         /\ lpc[o] \in {"idle", "attempt", "sleep", "body", "probing"}
         /\ fd[o] \in {"none", "open"}
         /\ tmo[o] \in Timeouts
         /\ start[o] \in 0..MaxTime
    /\ now \in 0..MaxTime
    /\ flock = Free \/ (flock[1] \in Locks /\ flock[2] \in {"fd", "leak", "probe"})

----------------------------------------------------------------------------
(* Two RepoSyncer.sync_changes runs against the same target working copy,  *)
(* bare or each inside `with file_lock(<target lock>, -1)`.                *)

MaxRaceRecs == 2      \* records of each run's batch

RaceRecords == [ revision : {<<"1">>}, action : {TokA, TokM, TokD}, path : {<<"a">>} ]

RaceBatches == BoundedSeq(RaceRecords, MaxRaceRecs)

\* the pipeline variables a run on the shared target leaves alone
besideTarget == <<variant, entry, svnInstalled, stage, updStep, log_output, changes, idx,
                  srcfs, files_to_commit, cmds, outcomes, effects, status, rerunVars>>

RaceInit ==
    /\ PipelineConstructed
    /\ pidOf = [o \in Locks |-> IF o = "L1" THEN 7 ELSE 12]
    /\ deftmo = [o \in Locks |-> -1]
    /\ LockConstructed
    /\ guarded \in BOOLEAN
    /\ rchanges \in [Locks -> RaceBatches]
    /\ rstage = [o \in Locks |-> "Idle"]
    /\ ridx = [o \in Locks |-> 1]
    /\ rfiles = [o \in Locks |-> <<>>]
    /\ rlast = [o \in Locks |-> [p \in Paths |-> "-"]]
    /\ rcommitted = [o \in Locks |-> [p \in Paths |-> "-"]]

\* with file_lock(lock_path, -1): entered before the run
GuardedEnter(o) ==
    /\ guarded /\ rstage[o] = "Idle"
    /\ EnterWith(o)

\* sync_changes is called: bare, or as the body of the with-block
RaceStart(o) ==
    /\ rstage[o] = "Idle"
    /\ lpc[o] = (IF guarded THEN "body" ELSE "idle")
    /\ rstage' = [rstage EXCEPT ![o] = "Replaying"]
    /\ UNCHANGED <<guarded, rchanges, ridx, rfiles, rlast, rcommitted>>
    /\ UNCHANGED <<fs, index, besideTarget, lockVars>>

\* sync_changes: one pass of "for change in changes" on the shared target
RaceReplay(o) ==
    /\ rstage[o] = "Replaying" /\ ridx[o] <= Len(rchanges[o])
    /\ LET change == rchanges[o][ridx[o]]
           path == change.path
           branch == LineBranch(change.action)
       IN
       IF branch = "write"
       THEN IF srcfs[path] = ABSENT
            THEN /\ rstage' = [rstage EXCEPT ![o] = "Failed"]
                 /\ UNCHANGED <<fs, index, ridx, rfiles, rlast>>
            ELSE /\ fs' = [fs EXCEPT ![path] = ContentAfterWrite(fs[path], srcfs[path])]
                 /\ IF LineStages(change.action)
                    THEN \E rc \in ExitCodes :
                           index' = IF rc = 0
                                    THEN [index EXCEPT ![path] = IndexAfterAdd(index[path])]
                                    ELSE index
                    ELSE UNCHANGED index
                 /\ rlast' = [rlast EXCEPT ![o][path] = srcfs[path]]
                 /\ rfiles' = [rfiles EXCEPT ![o] = Append(rfiles[o], path)]
                 /\ ridx' = [ridx EXCEPT ![o] = ridx[o] + 1]
                 /\ UNCHANGED rstage
       ELSE IF branch = "delete"
       THEN IF DeleteIssuesCommand(fs[path])
            THEN \E rc \in ExitCodes :
                   /\ fs' = IF rc = 0 THEN [fs EXCEPT ![path] = ABSENT] ELSE fs
                   /\ index' = IF rc = 0
                               THEN [index EXCEPT ![path] = IndexAfterDelete(index[path])]
                               ELSE index
                   /\ rlast' = IF rc = 0 THEN [rlast EXCEPT ![o][path] = ABSENT] ELSE rlast
                   /\ rfiles' = [rfiles EXCEPT ![o] = Append(rfiles[o], path)]
                   /\ ridx' = [ridx EXCEPT ![o] = ridx[o] + 1]
                   /\ UNCHANGED rstage
            ELSE /\ ridx' = [ridx EXCEPT ![o] = ridx[o] + 1]
                 /\ UNCHANGED <<fs, index, rfiles, rlast, rstage>>
       ELSE /\ ridx' = [ridx EXCEPT ![o] = ridx[o] + 1]
            /\ UNCHANGED <<fs, index, rfiles, rlast, rstage>>
    /\ UNCHANGED <<guarded, rchanges, rcommitted>>
    /\ UNCHANGED <<besideTarget, lockVars>>

\* sync_changes: after the loop, the commit of files_to_commit, or "return True"
RaceCommit(o) ==
    /\ rstage[o] = "Replaying" /\ LoopExhausted(ridx[o], Len(rchanges[o]))
    /\ IF rfiles[o] = <<>>
       THEN /\ rstage' = [rstage EXCEPT ![o] = "Done"]
            /\ UNCHANGED <<fs, index, rcommitted>>
       ELSE \E rc \in ExitCodes :
              /\ fs' = FilesAfterCommit(fs, rc)
              /\ index' = IF rc = 0
                          THEN [p \in Paths |-> IF p \in SeqRange(rfiles[o])
                                                THEN IndexAfterCommit(index[p]) ELSE index[p]]
                          ELSE index
              /\ rcommitted' = IF rc = 0
                               THEN [rcommitted EXCEPT ![o] =
                                       [p \in Paths |-> IF p \in SeqRange(rfiles[o])
                                                        THEN fs[p] ELSE "-"]]
                               ELSE rcommitted
              /\ rstage' = [rstage EXCEPT ![o] = LineStageAfterCommit(rc)]
    /\ UNCHANGED <<guarded, rchanges, ridx, rfiles, rlast>>
    /\ UNCHANGED <<besideTarget, lockVars>>

\* the with-block is left when the run has returned
GuardedExit(o) ==
    /\ guarded /\ rstage[o] \in {"Done", "Failed"}
    /\ ExitWith(o)

RaceNext ==
    \/ \E o \in Locks : GuardedEnter(o)
    \/ \E o \in Locks : Attempt(o)
    \/ Tick
    \/ \E o \in Locks : RaceStart(o)
    \/ \E o \in Locks : RaceReplay(o)
    \/ \E o \in Locks : RaceCommit(o)
    \/ \E o \in Locks : GuardedExit(o)

RaceSpec == RaceInit /\ [][RaceNext]_vars

----------------------------------------------------------------------------
(* The script invoked twice in a row.  main() builds a new syncer for each *)
(* invocation; nothing of the first one is carried over except what it left *)
(* in the working copies.                                                   *)

\* every svn command of the invocation exited with status 0
RunClean == svnInstalled /\ \A k \in 1..Len(cmds) : cmds[k].rc = 0

RerunInit ==
    /\ SyncerConstructed
    /\ run = 1
    /\ first = NoFirst

\* the first invocation has ended and the script is started again: a new
\* syncer (no records, no commit list, no command issued yet) on the same
\* source and target working copies
Restart ==
    /\ run = 1
    /\ stage \in {"Done", "Failed"}
    /\ first' = [fs |-> fs, log |-> log_output, changes |-> changes, clean |-> RunClean]
    /\ run' = 2
    /\ stage' = "Idle"
    /\ updStep' = 1
    /\ log_output' = <<>>
    /\ changes' = <<>>
    /\ idx' = 1
    /\ files_to_commit' = <<>>
    /\ cmds' = <<>>
    /\ outcomes' = <<>>
    /\ effects' = <<>>
    /\ status' = "none"
    /\ UNCHANGED <<variant, entry, svnInstalled, srcfs, fs, index, lockVars, raceVars>>

RerunNext == Next \/ Restart

RerunSpec == RerunInit /\ [][RerunNext]_vars

----------------------------------------------------------------------------
(* Vocabulary of the properties *)

Branch(action) == IF variant = "line" THEN LineBranch(action) ELSE XmlBranch(action)

TargetPath(change) == IF variant = "line" THEN change.path ELSE XmlTargetPath(change.path)

Parsed == stage \in {"Replaying", "Committing", "Done"} \/ (stage = "Failed" /\ outcomes # <<>>)

ReplayOver == stage \in {"Committing", "Done"} \/ (stage = "Failed" /\ outcomes # <<>>)

Touched == SeqRange(files_to_commit)

LogLines == SplitLines(log_output, <<>>)

\* the word before the first blank of a line, and the rest of the line
RECURSIVE FirstWord(_)
FirstWord(line) ==
    IF line = <<>> \/ Head(line) \in Whitespace THEN <<>>
    ELSE <<Head(line)>> \o FirstWord(Tail(line))

RestOfLine(line) == Strip(Slice(line, Len(FirstWord(line))))

\* a line of the form <token> <path> that is not a revision marker
HasChangeForm(line) ==
    /\ ~IsRevLine(line)
    /\ FirstWord(line) # <<>>
    /\ RestOfLine(line) # <<>>

\* the normalisation table of the design
Normalise(token) ==
    IF token \in {TokA, TokADD} THEN "Add"
    ELSE IF token \in {TokM, TokMODIFY} THEN "Modify"
    ELSE IF token \in {TokD, TokDELETE} THEN "Delete"
    ELSE IF token \in {TokR, TokREPLACE} THEN "Replace"
    ELSE "Unknown"

BranchOfKind(kind) ==
    IF kind \in {"Add", "Modify", "Replace"} THEN "write"
    ELSE IF kind = "Delete" THEN "delete"
    ELSE "skip"

\* positions of the change lines that follow some revision marker
MarkedChangeLines ==
    { i \in 1..Len(LogLines) :
        /\ IsChangeLine(LogLines[i])
        /\ \E j \in 1..(i - 1) : IsRevLine(LogLines[j]) }

NearestMarker(i) ==
    CHOOSE j \in 1..(i - 1) :
        /\ IsRevLine(LogLines[j])
        /\ \A k \in (j + 1)..(i - 1) : ~IsRevLine(LogLines[k])

\* the i-th smallest element of a set of numbers
RECURSIVE NthSmallest(_, _)
NthSmallest(S, n) ==
    LET m == CHOOSE x \in S : \A y \in S : x <= y IN
    IF n = 1 THEN m ELSE NthSmallest(S \ {m}, n - 1)

\* indices of the processed records whose replay left a content (or absence) at path p
EffectiveOn(p) ==
    { i \in 1..Len(effects) : TargetPath(changes[i]) = p /\ effects[i] # "-" }

LastIn(S) == CHOOSE i \in S : \A j \in S : j <= i

AllRevisionsKnown == \A n \in 1..Len(changes) : changes[n].revision # NoRev

LastCmd == cmds[Len(cmds)]

Rank(st) ==
    CASE st = "Idle" -> 1
      [] st = "Updating" -> 2
      [] st = "FetchingLog" -> 3
      [] st = "Parsing" -> 4
      [] st = "Replaying" -> 5
      [] st = "Committing" -> 6
      [] st = "Done" -> 7
      [] st = "Failed" -> 7

----------------------------------------------------------------------------
(* C1: the line-oriented parser returns exactly the change lines that      *)
(* follow some revision marker, each tagged with the revision of its       *)
(* nearest preceding marker; a change line before any marker is absent.    *)
C1_ParseKeepsOnlyMarkedLines ==
    (variant = "line" /\ Parsed) =>
        /\ Len(changes) = Cardinality(MarkedChangeLines)
        /\ \A n \in 1..Len(changes) :
             LET i == NthSmallest(MarkedChangeLines, n) IN
             /\ changes[n].revision = RevOf(LogLines[NearestMarker(i)])
             /\ changes[n].action = <<LogLines[i][1]>>
             /\ changes[n].path = Strip(Slice(LogLines[i], 2))
        /\ \A n \in 1..Len(changes) : changes[n].revision # NoRev

(* C2 (as stated): after replay the state of each path is the one asked    *)
(* for by the last Add/Modify/Replace/Delete record of that path.          *)
C2_LastRecordDecides ==
    (svnInstalled /\ stage \in {"Committing", "Done"}) =>
        \A p \in Paths :
            LET S == { i \in 1..Len(changes) :
                         TargetPath(changes[i]) = p /\ Branch(changes[i].action) # "skip" }
            IN S # {} =>
                 IF Branch(changes[LastIn(S)].action) = "delete"
                 THEN fs[p] = ABSENT
                 ELSE fs[p] # ABSENT /\ (variant = "line" => fs[p] = srcfs[p])

(* C2 (amended): at every point of replay the state of each path is the    *)
(* one left by the last record of that path whose file operation           *)
(* succeeded: the content it wrote, or absence for a delete.               *)
C2_LastEffectiveRecordDecides ==
    \A p \in Paths :
        EffectiveOn(p) # {} => fs[p] = effects[LastIn(EffectiveOn(p))]

\* [write p, write p] replayed with two different contents, the later one in the file
C2_Witness ==
    /\ Len(effects) = 2
    /\ Branch(changes[1].action) = "write" /\ Branch(changes[2].action) = "write"
    /\ TargetPath(changes[1]) = TargetPath(changes[2])
    /\ effects[1] = "v1" /\ effects[2] = "v2"
    /\ fs[TargetPath(changes[2])] = "v2"

(* C3: a failed record does not abort the batch: when replay is over,      *)
(* every record of the batch has been replayed and has an outcome.         *)
C3_FailureDoesNotAbortBatch ==
    (ReplayOver /\ AllRevisionsKnown) => Len(outcomes) = Len(changes)

(* C4: the touched-path set holds the path of every replayed record whose  *)
(* outcome is neither Skipped nor Failed, a Delete of an absent path       *)
(* included; the example log ends with the touched set {a, b}.             *)
C4_TouchedHoldsEveryAppliedPath ==
    variant = "line" =>
        /\ \A i \in 1..Len(outcomes) :
             (outcomes[i] = "Applied" /\ i < idx /\ changes[i].revision # NoRev)
                => changes[i].path \in Touched
        /\ (log_output = JoinLines(ExampleLines) /\ stage = "Done"
              /\ \A i \in 1..Len(outcomes) : outcomes[i] = "Applied")
             => Touched = { <<"a">>, <<"b">> }

(* C5: a change whose token is not recognised is kept in the parsed        *)
(* sequence as an Unknown record and replay skips it: no command, no file  *)
(* change, nothing added to the touched set.                               *)
C5_UnknownKeptAndSkipped ==
    /\ (variant = "line" /\ Parsed) =>
         \A i \in 1..Len(LogLines) :
            (/\ HasChangeForm(LogLines[i])
             /\ Normalise(FirstWord(LogLines[i])) = "Unknown"
             /\ \E j \in 1..(i - 1) : IsRevLine(LogLines[j]))
              => \E n \in 1..Len(changes) :
                    /\ changes[n].path = RestOfLine(LogLines[i])
                    /\ changes[n].action = FirstWord(LogLines[i])
    /\ \A n \in 1..Len(outcomes) :
         Normalise(changes[n].action) = "Unknown" => outcomes[n] = "Skipped" /\ effects[n] = "-"

(* C6: the single-letter and the word form of an action are replayed       *)
(* alike: every recognised token of a log line or record takes the replay  *)
(* branch of its normalised action, in both pipelines.                     *)
C6_BothTokenFormsReplayAlike ==
    /\ (variant = "line" /\ Parsed) =>
         \A i \in 1..Len(LogLines) :
            (/\ HasChangeForm(LogLines[i])
             /\ Normalise(FirstWord(LogLines[i])) # "Unknown"
             /\ \E j \in 1..(i - 1) : IsRevLine(LogLines[j]))
              => \E n \in 1..Len(changes) :
                    /\ changes[n].path = RestOfLine(LogLines[i])
                    /\ LineBranch(changes[n].action)
                         = BranchOfKind(Normalise(FirstWord(LogLines[i])))
    /\ variant = "xml" =>
         \A n \in 1..Len(changes) :
            XmlBranch(changes[n].action) = BranchOfKind(Normalise(changes[n].action))

(* C7 (as stated): replaying [Add x, Delete x] leaves x absent.            *)
C7_AddThenDeleteLeavesAbsent ==
    (/\ svnInstalled
     /\ Len(changes) = 2 /\ Len(outcomes) = 2
     /\ Branch(changes[1].action) = "write" /\ Branch(changes[2].action) = "delete"
     /\ TargetPath(changes[1]) = TargetPath(changes[2]))
      => fs[TargetPath(changes[2])] = ABSENT

(* C7 (amended): replaying [Add x, Delete x] leaves x absent whenever the  *)
(* Delete's command exits 0 or the Delete finds x already absent; no       *)
(* exception escapes the replay.                                           *)
C7_AddThenDeleteAbsentWhenDeleteSucceeds ==
    (/\ Len(changes) = 2 /\ Len(outcomes) = 2
     /\ Branch(changes[1].action) = "write" /\ Branch(changes[2].action) = "delete"
     /\ TargetPath(changes[1]) = TargetPath(changes[2]))
      => /\ effects[2] = ABSENT => fs[TargetPath(changes[2])] = ABSENT
         /\ status \notin {"FileNotFoundError", "AttributeError"}
         /\ effects[2] = "-" =>
               \E k \in 1..Len(cmds) :
                  cmds[k].verb = "delete" /\ cmds[k].rc # 0
                    /\ cmds[k].path = TargetPath(changes[2])

\* the Add wrote x, the Delete's command exited 0 and x is gone
C7_Witness ==
    /\ Len(changes) = 2 /\ Len(outcomes) = 2
    /\ Branch(changes[1].action) = "write" /\ Branch(changes[2].action) = "delete"
    /\ TargetPath(changes[1]) = TargetPath(changes[2])
    /\ effects[1] \notin {"-", ABSENT}
    /\ effects[2] = ABSENT
    /\ \E k \in 1..Len(cmds) : cmds[k].verb = "delete" /\ cmds[k].rc = 0
    /\ fs[TargetPath(changes[2])] = ABSENT

(* C8: replaying a Delete of a path that is absent from the target is a    *)
(* no-op success: no command, files and index unchanged, no error; so      *)
(* replaying it twice leaves the state of replaying it once.               *)
C8_DeleteOfAbsentIsNoOp ==
    [][ (/\ stage = "Replaying" /\ idx <= Len(changes)
         /\ Branch(changes[idx].action) = "delete"
         /\ fs[TargetPath(changes[idx])] = ABSENT)
        => (/\ fs' = fs
            /\ index' = index
            /\ cmds' = cmds
            /\ files_to_commit' = files_to_commit
            /\ stage' = "Replaying"
            /\ idx' = idx + 1) ]_vars

\* the same Delete of an absent path replayed twice, and no delete command issued
C8_Witness ==
    /\ Len(changes) = 2 /\ Len(outcomes) = 2
    /\ changes[1] = changes[2]
    /\ Branch(changes[1].action) = "delete"
    /\ effects = <<ABSENT, ABSENT>>
    /\ fs[TargetPath(changes[1])] = ABSENT
    /\ \A k \in 1..Len(cmds) : cmds[k].verb # "delete"

(* C9: a commit that exits non-zero ends the run as failed, rolls back     *)
(* nothing that replay wrote, staged or deleted, and is the last command   *)
(* of the run.                                                             *)
C9_CommitFailureIsTerminalNoRollback ==
    [][ /\ (stage = "Committing" /\ cmds'[Len(cmds')].rc # 0)
          => (/\ stage' = "Failed"
              /\ fs' = fs
              /\ \A p \in Paths : index[p] = "added" => index'[p] = "added"
              /\ \A p \in Paths :
                    (index[p] = "deleted" /\ fs[p] = ABSENT) => index'[p] = "deleted")
        /\ stage = "Failed" => (cmds' = cmds /\ fs' = fs /\ index' = index) ]_vars

\* a failed commit after replay has written a file and removed another
C9_Witness ==
    /\ stage = "Failed" /\ cmds # <<>>
    /\ LastCmd.verb = "commit" /\ LastCmd.rc # 0
    /\ \E i \in 1..Len(effects) : effects[i] \notin {"-", ABSENT} /\ fs[TargetPath(changes[i])] = effects[i]

(* C10: the stages of a run only advance in the order Idle, Updating,      *)
(* FetchingLog, Parsing, Replaying, Committing, Done/Failed; none is       *)
(* entered twice, and a finished run issues no further command.            *)
C10_StagesOnlyAdvance ==
    [][ /\ stage' # stage => Rank(stage') > Rank(stage)
        /\ stage \in {"Done", "Failed"} => (stage' = stage /\ cmds' = cmds) ]_vars

\* a run that went through update, log, replay and commit and is Done
C10_Witness ==
    /\ stage = "Done" /\ entry = "main"
    /\ \E k \in 1..Len(cmds) : cmds[k].verb = "update"
    /\ \E k \in 1..Len(cmds) : cmds[k].verb = "log"
    /\ LastCmd.verb = "commit" /\ LastCmd.rc = 0

(* C11: a log command that exits non-zero aborts the run as failed: no     *)
(* record is replayed and no commit is issued.                             *)
C11_LogFailureAbortsRun ==
    (\E k \in 1..Len(cmds) : cmds[k].verb = "log" /\ cmds[k].rc # 0) =>
        /\ outcomes = <<>>
        /\ \A k \in 1..Len(cmds) : cmds[k].verb # "commit"
        /\ stage # "Done"

(* C12: an update command that exits non-zero aborts the run as failed     *)
(* before the log is fetched: it is the last command of the run, nothing   *)
(* is replayed, nothing committed.                                         *)
C12_UpdateFailureAbortsRun ==
    \A k \in 1..Len(cmds) :
        (cmds[k].verb = "update" /\ cmds[k].rc # 0) =>
            /\ stage = "Failed"
            /\ k = Len(cmds)
            /\ changes = <<>> /\ outcomes = <<>>

\* the update ran, exited non-zero, and the run is over
C12_Witness ==
    /\ svnInstalled /\ stage = "Failed" /\ cmds # <<>>
    /\ LastCmd.verb = "update" /\ LastCmd.rc # 0

MarkerLines == { i \in 1..Len(LogLines) : IsRevLine(LogLines[i]) }

\* the log lists at least two revisions, each newer than the ones after it
LogIsNewestFirst ==
    /\ Cardinality(MarkerLines) >= 2
    /\ \A i, j \in MarkerLines :
         i < j => RevNum(RevOf(LogLines[i])) > RevNum(RevOf(LogLines[j]))

(* C13: when the log is emitted newest-first the pipeline reverses it, so  *)
(* of two replayed records of one path the one of the lower revision is    *)
(* applied first.                                                          *)
C13_OlderRevisionAppliedFirst ==
    (variant = "line" /\ Parsed /\ LogIsNewestFirst /\ AllRevisionsKnown) =>
        \A i, j \in 1..Len(outcomes) :
            (i < j /\ changes[i].path = changes[j].path)
              => RevNum(changes[i].revision) <= RevNum(changes[j].revision)

ChangeLinePositions == { i \in 1..Len(LogLines) : IsChangeLine(LogLines[i]) }

\* the line-oriented parser's records are its change lines, one each, in log order
LineRecordsMirrorLog ==
    /\ Len(changes) = Cardinality(ChangeLinePositions)
    /\ \A n \in 1..Len(changes) :
         LET i == NthSmallest(ChangeLinePositions, n) IN
         /\ changes[n].action = <<LogLines[i][1]>>
         /\ changes[n].path = Strip(Slice(LogLines[i], 2))

\* the path entries of an XML log, block after block
RECURSIVE AllEntries(_)
AllEntries(blocks) ==
    IF blocks = <<>> THEN <<>> ELSE Head(blocks).entries \o AllEntries(Tail(blocks))

\* the log command of this run exited 0 and its output has been parsed
LogParsed ==
    /\ stage \in {"Replaying", "Committing", "Done"}
    /\ \E k \in 1..Len(cmds) : cmds[k].verb = "log" /\ cmds[k].rc = 0

(* C14: the parsed sequence lists the change records in the order the      *)
(* changes have in the raw log, none reordered, duplicated or merged, for  *)
(* the line-oriented and for the block-structured parser.                  *)
C14_ParsedOrderMirrorsLog ==
    /\ (variant = "line" /\ LogParsed) => LineRecordsMirrorLog
    /\ (variant = "xml" /\ entry = "main" /\ LogParsed) =>
         /\ Len(changes) = Len(AllEntries(log_output))
         /\ \A n \in 1..Len(changes) : changes[n].path = AllEntries(log_output)[n]
\* the records whose replay wrote a file into the target
WrittenRecords ==
    { i \in 1..Len(effects) :
        /\ Branch(changes[i].action) = "write"
        /\ effects[i] \notin {"-", ABSENT}
        /\ changes[i].revision # NoRev }

(* C15: a write record of revision r puts into the target the source's     *)
(* content of the path as of r and of no other revision: when a later      *)
(* revision of the log modifies the same path, the two records write       *)
(* different contents, each that of its own revision.                      *)
C15_WritesContentOfRecordRevision ==
    \A i, j \in WrittenRecords :
        ( /\ TargetPath(changes[i]) = TargetPath(changes[j])
          /\ RevNum(changes[i].revision) < RevNum(changes[j].revision)
          /\ Normalise(changes[j].action) = "Modify" )
        => effects[i] # effects[j]

(* C16: a file leaves the target working copy only in a step that runs the *)
(* tracked-delete command on that path with exit code 0, and the index     *)
(* then no longer lists the path as present; at every moment a path whose  *)
(* file is absent is unversioned or scheduled for deletion in the index.   *)
C16_RemovedOnlyByTrackedDelete ==
    /\ [][ \A p \in Paths :
             (fs[p] # ABSENT /\ fs'[p] = ABSENT) =>
                 /\ Len(cmds') = Len(cmds) + 1
                 /\ cmds'[Len(cmds')].verb = "delete"
                 /\ cmds'[Len(cmds')].repo = "repo2"
                 /\ cmds'[Len(cmds')].rc = 0
                 /\ cmds'[Len(cmds')].path = p
                 /\ index'[p] \in {"none", "deleted"} ]_vars
    /\ [](\A p \in Paths : fs[p] = ABSENT => index[p] \in {"none", "deleted"})

C16_Witness ==
    \E k \in 1..Len(cmds) :
        /\ cmds[k].verb = "delete" /\ cmds[k].rc = 0
        /\ fs[cmds[k].path] = ABSENT
        /\ index[cmds[k].path] = "deleted"
        /\ ReplayOver

\* the outcome of a run whose binary could not be started
ToolUnavailableStatus == "FileNotFoundError"

(* C17: when the svn binary cannot be started the run fails at the first   *)
(* command it attempts, with the ToolUnavailable outcome and not with one  *)
(* a non-zero exit also produces, and nothing is attempted after it.       *)
C17_MissingBinaryFailsAtOnce ==
    ~svnInstalled =>
        /\ Len(cmds) <= 1
        /\ cmds # <<>> => stage = "Failed"
        /\ stage = "Failed" => status = ToolUnavailableStatus

(* C18: exit code 0 is the only success signal.  A boolean verb returns    *)
(* True exactly when the exit code is 0 whatever stderr holds; a failed    *)
(* update is the command at which the run failed and a successful one is   *)
(* not; after the commit the run is Done exactly when it exited with 0.    *)
C18_ExitCodeIsTheOnlySuccessSignal ==
    /\ \A code \in ExitCodes, err \in StderrTexts : ReturnsTrue(code, err) <=> code = 0
    /\ \A k \in 1..Len(cmds) :
         /\ cmds[k].verb = "update" =>
              (cmds[k].rc = 0 <=> ~(stage = "Failed" /\ k = Len(cmds)))
         /\ cmds[k].verb = "commit" =>
              /\ stage \in {"Done", "Failed"}
              /\ stage = "Done" <=> cmds[k].rc = 0

C18_Witness ==
    /\ stage = "Done" /\ variant = "line"
    /\ LastCmd.verb = "commit" /\ LastCmd.rc = 0 /\ LastCmd.err = "warning"
    /\ cmds[1].verb = "update" /\ cmds[1].rc = 0 /\ cmds[1].err = "warning"

\* the closing report the contract asks of every run
CountsSummary == "summary of Applied/Skipped/Failed counts"

(* C19: every run that has ended, as Done or as Failed at whatever stage,  *)
(* has reported the summary of its Applied, Skipped and Failed counts      *)
(* (runs whose binary is missing are left aside).                          *)
C19_EveryRunReportsCounts ==
    (svnInstalled /\ stage \in {"Done", "Failed"}) => status = CountsSummary

\* the staging commands issued for one path during replay
StagingCalls(p) == { k \in 1..Len(cmds) : cmds[k].verb = "add" /\ cmds[k].path = p }

\* the replayed Add records of one path whose file has been written
WrittenAdds(p) ==
    { i \in 1..Len(effects) :
        /\ Normalise(changes[i].action) = "Add"
        /\ Branch(changes[i].action) = "write"
        /\ TargetPath(changes[i]) = p
        /\ effects[i] # "-" }

(* C20: the staging command is issued once for every replayed Add record   *)
(* whose file has been written and for no other record: per path, the      *)
(* staging calls are as many as those Add records once replay is over.     *)
C20_StagingExactlyForAdds ==
    ReplayOver =>
        \A p \in Paths : Cardinality(StagingCalls(p)) = Cardinality(WrittenAdds(p))

\* positions of the commit commands of the run
CommitCalls == { k \in 1..Len(cmds) : cmds[k].verb = "commit" }

(* C25: a run issues at most one commit command, against the target; it is *)
(* the last command of the run, issued when every record of the batch has  *)
(* been processed, and it names the touched paths accumulated by replay    *)
(* (RepoSyncer) or no path, i.e. the whole working copy (SVNRepoSync).     *)
C25_OneCommitAfterReplay ==
    /\ Cardinality(CommitCalls) <= 1
    /\ \A k \in CommitCalls :
         /\ k = Len(cmds)
         /\ cmds[k].repo = "repo2"
         /\ Len(outcomes) = Len(changes)
         /\ idx = Len(changes) + 1
         /\ variant = "line" => (cmds[k].path = files_to_commit /\ files_to_commit # <<>>)
         /\ variant = "xml" => cmds[k].path = <<>>

C25_Witness ==
    /\ variant = "line" /\ stage = "Done" /\ CommitCalls # {}
    /\ Len(changes) >= 2 /\ Len(files_to_commit) >= 2

\* copy_file raised inside the replay loop of RepoSyncer.sync_changes
CopyRaised ==
    \E i \in 1..Len(effects) : LineBranch(changes[i].action) = "write" /\ effects[i] = "-"

\* RepoSyncer.sync_changes has been called and has returned
SyncChangesReturned ==
    /\ variant = "line" /\ stage \in {"Done", "Failed"}
    /\ \E k \in 1..Len(cmds) : cmds[k].verb = "log"

(* C28: RepoSyncer.sync_changes returns a boolean and never raises; it     *)
(* returns True exactly when nothing raised during fetch, parse and replay *)
(* and either no path was touched and no commit was issued, or the single  *)
(* commit exited with code 0.                                              *)
C28_SyncChangesResult ==
    SyncChangesReturned =>
        /\ status \in {"Successfully synced changes", "Failed to sync changes"}
        /\ Cardinality(CommitCalls) <= 1
        /\ status = "Successfully synced changes" <=>
             /\ ~CopyRaised
             /\ \/ files_to_commit = <<>> /\ CommitCalls = {}
                \/ \E k \in CommitCalls : cmds[k].rc = 0
        /\ stage = "Done" <=> status = "Successfully synced changes"

C28_Witness ==
    /\ SyncChangesReturned /\ status = "Failed to sync changes"
    /\ CommitCalls # {} /\ LastCmd.rc = 1 /\ LastCmd.err = ""

\* the objects whose acquire() has returned True with no release() call since
Holders == { o \in Locks : granted[o] }

(* C21: for one lock file at most one FileLock object, of the same or of   *)
(* another process, is between an acquire() that returned True and its     *)
(* next release(); that object's open file description is the one the      *)
(* kernel's lock belongs to.                                               *)
C21_AtMostOneHolder ==
    /\ Cardinality(Holders) <= 1
    /\ \A o \in Holders : flock # Free /\ flock[1] = o /\ flock[2] # "probe"

\* one object holds while the other's acquire has timed out against it
C21_Witness ==
    \E o, w \in Locks :
        /\ o # w /\ granted[o] /\ ~granted[w]
        /\ result[w] = "False" /\ lpc[w] = "idle"

(* C22: the body of a with-block (file_lock, with_file_lock, FileLock as a *)
(* context manager) runs only while its own lock object holds the lock,    *)
(* so two bodies for the same lock file never overlap, whatever the        *)
(* timeout.                                                                *)
C22_BodyRunsUnderLock ==
    /\ \A o \in Locks : lpc[o] = "body" => (flock # Free /\ flock[1] = o)
    /\ Cardinality({ o \in Locks : lpc[o] = "body" }) <= 1

\* acquire() on object o returns in this step, with the given result
AcquireReturns(o, res) ==
    lpc[o] = "attempt" /\ lpc'[o] \in {"idle", "body"} /\ result'[o] = res

(* C23: acquire returns False only with a timeout t >= 0 in force, once t   *)
(* has elapsed since the call started, with the lock held and the object's *)
(* descriptor closed, and the object not holding when another holder had   *)
(* the lock; it goes on waiting only while t has not elapsed (never gives  *)
(* up with -1); it returns True only when the object's descriptor holds    *)
(* the lock; a timeout passed to acquire() replaces the object's default.  *)
C23_AcquireHonoursTimeout ==
    /\ [][ \A o \in Locks :
             /\ AcquireReturns(o, "False") =>
                  /\ tmo[o] >= 0
                  /\ now - start[o] >= tmo[o]
                  /\ fd'[o] = "none"
                  /\ flock' # Free
                  /\ (flock # Free /\ flock[1] # o) => flock'[1] # o
             /\ AcquireReturns(o, "True") =>
                  /\ flock' = <<o, "fd">>
                  /\ fd'[o] = "open"
             /\ (lpc[o] = "attempt" /\ lpc'[o] = "sleep") =>
                  /\ tmo[o] = -1 \/ now - start[o] < tmo[o]
                  /\ flock' # Free
         ]_vars
    /\ [](\A t \in Timeouts, d \in Timeouts :
            /\ EffectiveTimeout(<<t>>, d) = t
            /\ EffectiveTimeout(NoArg, d) = d)

\* an object whose default is to wait forever has timed out against another holder
C23_Witness ==
    \E w \in Locks :
        /\ deftmo[w] = -1 /\ result[w] = "False" /\ lpc[w] = "idle"
        /\ flock # Free /\ flock[1] # w
        /\ now = MaxTime

(* C24: whenever get_owner_pid reports a pid, an object of that process    *)
(* holds the lock at that moment; with no holder (never acquired, or       *)
(* acquired and released) it reports none.                                 *)
C24_OwnerPidIsTheHolder ==
    LET r == get_owner_pid(lockfile) IN
    r # NoPid =>
        /\ flock # Free
        /\ flock[2] \in {"fd", "leak"}
        /\ pidOf[flock[1]] = r[1]

(* C27: after release() has returned on an object, whatever acquire() and  *)
(* release() calls came before, that object holds the lock through no      *)
(* descriptor, so another FileLock on the path can take it.                *)
C27_ReleaseFreesTheLock ==
    \A o \in Locks :
        (result[o] = "released" /\ lpc[o] = "idle") =>
            /\ fd[o] = "none"
            /\ flock = Free \/ flock[1] # o

\* object o is inside acquire() with the infinite timeout
WaitsForever(o) == lpc[o] \in {"attempt", "sleep"} /\ tmo[o] = -1

(* C29: when every holder eventually releases the lock (the lock is free   *)
(* again and again) and the callers keep being scheduled, a caller of      *)
(* acquire with timeout -1 eventually gets the lock.                       *)
C29_InfiniteWaiterAcquires ==
    \A o \in Locks :
        ([]<>(flock = Free)) => (WaitsForever(o) ~> granted[o])

\* the run of o is between its start and its return
RunInProgress(o) == rstage[o] = "Replaying"

\* a commit covered, for a path the run itself last wrote or removed, a
\* content other than the one the run's replay left there
CommitCoversForeignContent ==
    \E o \in Locks, p \in Paths :
        /\ rcommitted[o][p] # "-"
        /\ rlast[o][p] # "-"
        /\ rcommitted[o][p] # rlast[o][p]

(* C26: when each of two runs on one target is made inside the file lock   *)
(* with the infinite timeout, the runs execute one after the other, so the *)
(* target ends as one of the two sequential orders leaves it; in           *)
(* particular no commit then covers content that another run put in place  *)
(* of the committing run's own, which bare interleaved runs do produce.    *)
C26_LockedRunsAreSerial ==
    guarded =>
        /\ \A o, w \in Locks : (o # w /\ RunInProgress(o)) => ~RunInProgress(w)
        /\ \A o \in Locks : RunInProgress(o) => flock = <<o, "fd">>
        /\ ~CommitCoversForeignContent

\* two bare runs have ended and a commit covered the other run's deletion
C26_Witness ==
    /\ ~guarded
    /\ \A o \in Locks : rstage[o] \in {"Done", "Failed"}
    /\ CommitCoversForeignContent


----------------------------------------------------------------------------
(* Two invocations in a row *)

SecondRunOver == run = 2 /\ stage \in {"Done", "Failed"}

====
